---- MODULE Spec2Model ----
(***************************************************************************)
(* Model of the dino runner's simulation core (src/src/game.rs): the Game  *)
(* session, its per-frame operation Game::frame, the packed spawn bytes    *)
(* (SpawnInfo) and the 24.8 fixed-point arithmetic they use.               *)
(*                                                                         *)
(* A Number (Num<i32, 8>) is modelled by its raw integer: value * 256.     *)
(***************************************************************************)
EXTENDS Integers, Sequences, FiniteSets, TLC

\* ------------------------------------------------------------------ bounds
\* No simulated frame is started once frame_count has reached MaxFrames.
MaxFrames == 172

\* ------------------------------------------------------ fixed-point Number
\* type Number = Num<i32, 8>: the number of fractional bits.
FRAC_BITS == 8

ONE == 2 ^ FRAC_BITS

\* Num::new(i): the integer i as a Number.
NumNew(i) == i * ONE

\* Num::floor(): arithmetic shift right, rounds towards minus infinity.
Floor(n) == n \div ONE

\* Rust's integer division truncates towards zero.
TruncDiv(a, b) ==
    IF (a >= 0) = (b > 0) THEN (IF a >= 0 THEN a ELSE -a) \div (IF b > 0 THEN b ELSE -b)
    ELSE -((IF a >= 0 THEN a ELSE -a) \div (IF b > 0 THEN b ELSE -b))

\* Num / Num: ((self.0 << N) / rhs.0).
NumDiv(a, b) == TruncDiv(a * ONE, b)

\* `v as u16` of an i32.
AsU16(v) == v % 65536

\* ------------------------------------------------------ resource constants
BG_TILES_HEIGHT == 14

BG_TILES_OFFSET_Y == (20 - BG_TILES_HEIGHT) \div 2

GROUND_TILE_Y == 11 + BG_TILES_OFFSET_Y

GROUND_Y == GROUND_TILE_Y * 8 + 2

DINO_GROUNDED_Y == GROUND_Y - 32

CACTUS_Y == GROUND_Y - 32

DINO_COLLISION_RECT == [x |-> 9, y |-> 4, w |-> 18, h |-> 27]

BIRD_COLLISION_RECT == [x |-> 1, y |-> 13, w |-> 28, h |-> 7]

CACTUS_COLLISION_RECT == [x |-> 1, y |-> 6, w |-> 27, h |-> 25]

\* ------------------------------------------------------------- SpawnInfo
\* Mutant of SpawnDelay: the base and step of the first version of the game.
SpawnDelayV1(b) == (b % 8) * 20 + 48

\* A SpawnInfo is its byte, 0..255.
\* SpawnInfo::delay.
SpawnDelay(b) == (b % 8) * 12 + 40

EnemyKindOf(b) == IF ((b \div 8) % 8) < 4 THEN "Bird" ELSE "Cactus"

EnemyArg2Bit(b) == (b \div 64) % 4

\* Byte i of `rnd as u32`, rnd being the i32 that agb::rng::gen() returns.
RndByte(rnd, i) == (rnd \div (256 ^ i)) % 256

\* The four entries pushed by one refill, least significant byte first.
RefillEntries(rnd) == [i \in 1..4 |-> RndByte(rnd, i - 1)]

\* ------------------------------------------------------------- GameState
Continue == [tag |-> "Continue", score |-> 0]

Pause == [tag |-> "Pause", score |-> 0]

Over(s) == [tag |-> "Over", score |-> s]

Restart == [tag |-> "Restart", score |-> 0]

\* ------------------------------------------------------------------ input
Buttons == {"A", "START"}

\* Mutant of IsJustPressed: a held button counts as pressed in every frame.
IsJustPressedHeld(previous, current, b) == b \in current

\* The ButtonController is modelled by the keys held at its latest update()
\* (its `current`); update() moves them to `previous` and samples the keys.
\* ButtonController::is_just_pressed after update(): held now, not before.
IsJustPressed(previous, current, b) == b \in current /\ b \notin previous

\* --------------------------------------------------------------- settings
\* The Settings the sessions are built with (values of 24.8 fields are raw).
SettingsSet ==
    { [init_scroll_velocity |-> 870,
       scroll_velocity_increase_per_level |-> 25,
       frames_to_level_up |-> 60,
       jump_height_px |-> 45,
       jump_duration_frames |-> 4,
       max_enemies_displayed |-> 1,
       animation_interval_frames |-> 10,
       spawn_interval_frames |-> 60,
       hi_score |-> 1234],
      [init_scroll_velocity |-> 512,
       scroll_velocity_increase_per_level |-> 26,
       frames_to_level_up |-> 50,
       jump_height_px |-> 40,
       jump_duration_frames |-> 3,
       max_enemies_displayed |-> 2,
       animation_interval_frames |-> 10,
       spawn_interval_frames |-> 60,
       hi_score |-> 1234] }

\* The values agb::rng::gen() returns in the model (i32).
RndValues == {0, -1472190080}

VARIABLES
    settings,                     \* Game.settings
    overflow_checks,              \* build profile: integer overflow panics
    state,                        \* Game.state
    frame_count,                  \* Game.frame_count
    speed_level,                  \* Game.speed_level
    background_position,          \* Game.background_position
    scroll_velocity,              \* Game.scroll_velocity
    gravity_px_per_square_frame,  \* Game.gravity_px_per_square_frame
    input,                        \* Game.input: the keys held at the latest update()
    player,                       \* Game.player
    enemies,                      \* Game.enemies
    capacity,                     \* Game.enemies.capacity()
    frames_current_level,         \* Game.frames_current_level
    frames_since_last_spawn,      \* Game.frames_since_last_spawn
    spawn_queue,                  \* Game.spawn_queue
    rng_out,                      \* the values agb::rng::gen() has returned
    panicked,                     \* a frame call has panicked
    oam,                          \* the objects set through the frame's OamIterator
    save_buffer,                  \* a SaveBuffer: its 5 bytes
    save_origin,                  \* how save_buffer was built
    returned                      \* the latest call of a query and its result

vars == <<settings, overflow_checks, state, frame_count, speed_level,
          background_position, scroll_velocity, gravity_px_per_square_frame,
          input, player, enemies, capacity, frames_current_level,
          frames_since_last_spawn, spawn_queue, rng_out, panicked,
          oam, save_buffer, save_origin, returned>>

\* What lies outside the session: the display objects, the save buffer and
\* the result of the latest query.
hostvars == <<oam, save_buffer, save_origin, returned>>

\* No query has been called yet.
NoCall == [op |-> "none", value |-> 0]

\* SaveBuffer::new().
SaveBufferNew == <<0, 0, 0, 0, 0>>

\* The fields the simulation owns, apart from state and input.
simvars == <<frame_count, speed_level, background_position, scroll_velocity,
             player, enemies, frames_current_level, frames_since_last_spawn,
             spawn_queue, rng_out>>

\* Mutant of WithCapacity: the deque allocates one slot more than asked for.
WithCapacityRounded(n) == n + 1

\* VecDeque::with_capacity(n).capacity() for a non-zero-sized element.
WithCapacity(n) == n

\* Mutant of CurrentScore: the cap takes over one frame later.
CurrentScoreLateCap(fc) == IF fc <= 6000000 THEN fc \div 6 ELSE 999999

\* Game::current_score, as a function of the frame counter.
CurrentScore(fc) == IF fc < 6000000 THEN fc \div 6 ELSE 999999

\* Game::from_settings(s).
FromSettings(s) ==
    /\ settings = s
    /\ state = Continue
    /\ frame_count = 0
    /\ frames_current_level = 0
    /\ frames_since_last_spawn = 0
    /\ speed_level = 0
    /\ background_position = [x |-> NumNew(0), y |-> NumNew(0)]
    /\ scroll_velocity = s.init_scroll_velocity
    /\ player = [position |-> [x |-> NumNew(16), y |-> NumNew(DINO_GROUNDED_Y)],
                 vertical_speed |-> NumNew(0),
                 is_jumping |-> FALSE]
    /\ gravity_px_per_square_frame =
           NumDiv(NumNew(2 * s.jump_height_px),
                  NumNew(s.jump_duration_frames * s.jump_duration_frames))
    /\ enemies = <<>>
    /\ capacity = WithCapacity(s.max_enemies_displayed)
    /\ spawn_queue = <<>>
    /\ rng_out = <<>>
    /\ panicked = FALSE

\* The host before its first call: nothing drawn, an empty save buffer.
HostInit ==
    /\ oam = <<>>
    /\ save_buffer = SaveBufferNew
    /\ save_origin = [by |-> "new", value |-> 0]
    /\ returned = NoCall

\* A fresh session of one of the Settings, in either build, with any keys held
\* when the ButtonController is created.
Init ==
    /\ \E s \in SettingsSet : FromSettings(s)
    /\ overflow_checks \in BOOLEAN
    /\ input \in SUBSET Buttons
    /\ HostInit

\* --------------------------------------------------- collision arithmetic
\* u16 + u16: the wrapped sum and whether it overflowed.
AddU16(a, b) == [value |-> (a + b) % 65536, overflow |-> a + b >= 65536]

\* rect.position += (floor(position.x) as u16, floor(position.y) as u16):
\* Vector2D's AddAssign adds x, then y.
TranslateRect(rect, position) ==
    LET ax == AddU16(rect.x, AsU16(Floor(position.x)))
        ay == AddU16(rect.y, AsU16(Floor(position.y)))
    IN  [rect |-> [x |-> ax.value, y |-> ay.value, w |-> rect.w, h |-> rect.h],
         overflow |-> ax.overflow \/ ay.overflow]

\* Rect::touches (agb fixnum): four strict comparisons joined by &&, whose
\* u16 sums are evaluated left to right until one comparison fails.
Touches(self, other) ==
    LET ox == AddU16(other.x, other.w)
        sx == AddU16(self.x, self.w)
        oy == AddU16(other.y, other.h)
        sy == AddU16(self.y, self.h)
        c1 == self.x < ox.value
        c2 == sx.value > other.x
        c3 == self.y < oy.value
        c4 == sy.value > other.y
    IN  [result |-> c1 /\ c2 /\ c3 /\ c4,
         overflow |-> \/ ox.overflow
                      \/ c1 /\ sx.overflow
                      \/ c1 /\ c2 /\ oy.overflow
                      \/ c1 /\ c2 /\ c3 /\ sy.overflow]

\* The hit-box of an enemy kind (sprite_cache.bird / sprite_cache.cactus).
EnemyRect(kind) == IF kind = "Bird" THEN BIRD_COLLISION_RECT ELSE CACTUS_COLLISION_RECT

\* Mutant of IsOut: no enemy is ever counted as off-screen.
IsOutNever(enemy) == FALSE

\* Mutant of IsOut: an enemy on the line floor(x) = -32 counts as off-screen.
IsOutAtLine(enemy) == Floor(enemy.position.x) <= -32

\* Is the enemy counted as off-screen by the pass?
IsOut(enemy) == Floor(enemy.position.x) < -32

\* Mutant of GatePasses: the gate is 16 pixels wide.
GatePassesNarrow(player_x, enemy_x) ==
    player_x <= enemy_x + NumNew(16) /\ enemy_x <= player_x + NumNew(16)

\* The broad-phase gate, on the enemy's x after its move.
GatePasses(player_x, enemy_x) ==
    player_x <= enemy_x + NumNew(32) /\ enemy_x <= player_x + NumNew(32)

\* Mutant of AdvanceEnemy: a bird flies one pixel per frame faster than the
\* background scrolls.
AdvanceEnemyBirdFlies(enemy, player_position, player_rect, velocity) ==
    LET own   == IF enemy.kind = "Bird" THEN NumNew(1) ELSE NumNew(0)
        moved == [enemy EXCEPT !.position.x = @ - velocity - own]
        gate  == GatePasses(player_position.x, moved.position.x)
        tr    == TranslateRect(EnemyRect(moved.kind), moved.position)
        t     == Touches(tr.rect, player_rect)
    IN  [enemy |-> moved,
         collided |-> gate /\ t.result,
         overflow |-> gate /\ (tr.overflow \/ t.overflow)]

\* Mutant of AdvanceEnemy: the collision is tested before the enemy moves.
AdvanceEnemyTestFirst(enemy, player_position, player_rect, velocity) ==
    LET moved == [enemy EXCEPT !.position.x = @ - velocity]
        gate  == GatePasses(player_position.x, enemy.position.x)
        tr    == TranslateRect(EnemyRect(enemy.kind), enemy.position)
        t     == Touches(tr.rect, player_rect)
    IN  [enemy |-> moved,
         collided |-> gate /\ t.result,
         overflow |-> gate /\ (tr.overflow \/ t.overflow)]

\* One iteration of the enemy loop for an enemy that is not off-screen:
\* the enemy after its move, whether it collided, whether a u16 sum overflowed.
AdvanceEnemy(enemy, player_position, player_rect, velocity) ==
    LET moved == [enemy EXCEPT !.position.x = @ - velocity]
        gate  == GatePasses(player_position.x, moved.position.x)
        tr    == TranslateRect(EnemyRect(moved.kind), moved.position)
        t     == Touches(tr.rect, player_rect)
    IN  [enemy |-> moved,
         collided |-> gate /\ t.result,
         overflow |-> gate /\ (tr.overflow \/ t.overflow)]

\* Mutant of EnemyPass: the loop is left at the first collision.
RECURSIVE EnemyPassBreak(_, _, _, _, _, _, _)
EnemyPassBreak(es, i, acc, player_position, player_rect, velocity, checks) ==
    IF i > Len(es) \/ acc.panicked \/ acc.is_collided THEN acc
    ELSE IF IsOut(es[i])
         THEN EnemyPassBreak(es, i + 1,
                             [acc EXCEPT !.total_enemies_out = @ + 1],
                             player_position, player_rect, velocity, checks)
         ELSE LET r == AdvanceEnemy(es[i], player_position, player_rect, velocity)
              IN  EnemyPassBreak(es, i + 1,
                                 [enemies |-> [acc.enemies EXCEPT ![i] = r.enemy],
                                  total_enemies_out |-> acc.total_enemies_out,
                                  is_collided |-> acc.is_collided
                                                  \/ (r.collided /\ ~(checks /\ r.overflow)),
                                  panicked |-> checks /\ r.overflow],
                                 player_position, player_rect, velocity, checks)

\* The enemy loop over es[i..], continuing from the accumulated result acc.
\* With overflow checks on, the loop stops at the first overflowing sum.
RECURSIVE EnemyPass(_, _, _, _, _, _, _)
EnemyPass(es, i, acc, player_position, player_rect, velocity, checks) ==
    IF i > Len(es) \/ acc.panicked THEN acc
    ELSE IF IsOut(es[i])
         THEN EnemyPass(es, i + 1,
                        [acc EXCEPT !.total_enemies_out = @ + 1],
                        player_position, player_rect, velocity, checks)
         ELSE LET r == AdvanceEnemy(es[i], player_position, player_rect, velocity)
              IN  EnemyPass(es, i + 1,
                            [enemies |-> [acc.enemies EXCEPT ![i] = r.enemy],
                             total_enemies_out |-> acc.total_enemies_out,
                             is_collided |-> acc.is_collided
                                             \/ (r.collided /\ ~(checks /\ r.overflow)),
                             panicked |-> checks /\ r.overflow],
                            player_position, player_rect, velocity, checks)

\* Mutant of Drain: the n enemies are taken from the back of the deque.
DrainBack(es, n) == SubSeq(es, 1, Len(es) - n)

\* VecDeque::drain(..n) on a deque of at least n elements.
Drain(es, n) == SubSeq(es, n + 1, Len(es))

\* Mutant of SpawnEnemy: the bird lanes start one cell higher.
SpawnEnemyLane5(b) ==
    IF EnemyKindOf(b) = "Bird"
    THEN [kind |-> "Bird",
          position |-> [x |-> NumNew(8 * 30), y |-> NumNew((EnemyArg2Bit(b) + 5) * 8)]]
    ELSE [kind |-> "Cactus",
          position |-> [x |-> NumNew(8 * 30), y |-> NumNew(CACTUS_Y)]]

\* The enemy created for a consumed spawn entry.
SpawnEnemy(b) ==
    IF EnemyKindOf(b) = "Bird"
    THEN [kind |-> "Bird",
          position |-> [x |-> NumNew(8 * 30), y |-> NumNew((EnemyArg2Bit(b) + 6) * 8)]]
    ELSE [kind |-> "Cactus",
          position |-> [x |-> NumNew(8 * 30), y |-> NumNew(CACTUS_Y)]]

\* -------------------------------------------------------------- Game::frame
\* Mutant of SpawnFires: a fixed interval (Settings.spawn_interval_frames of
\* the default settings) instead of the delay of the front entry.
SpawnFiresFixedInterval(fsls, front) == fsls > 60

\* Mutant of SpawnFires: the guard is >= instead of >.
SpawnFiresAtDelay(fsls, front) == fsls >= SpawnDelay(front)

\* The spawn guard: the counter, already incremented, against the front entry.
SpawnFires(fsls, front) == fsls > SpawnDelay(front)

\* Mutant of LevelUpDue: the level timer has to pass the setting.
LevelUpDueLate(frames, frames_to_level_up) == frames > frames_to_level_up

\* "Process level up": the level timer, already incremented, has reached
\* settings.frames_to_level_up.
LevelUpDue(frames, frames_to_level_up) == frames >= frames_to_level_up

\* Mutant of PlayerStep: the gravity is added to the speed before the move.
PlayerStepGravityFirst(p, a_pressed, gravity, duration) ==
    LET v1 == p.vertical_speed + gravity
        y1 == p.position.y + v1
        landed == Floor(y1) >= DINO_GROUNDED_Y
    IN  IF p.is_jumping
        THEN [position |-> [x |-> p.position.x,
                            y |-> IF landed THEN NumNew(DINO_GROUNDED_Y) ELSE y1],
              vertical_speed |-> v1,
              is_jumping |-> ~landed]
        ELSE IF a_pressed
             THEN [p EXCEPT !.vertical_speed = (-gravity) * duration,
                            !.is_jumping = TRUE]
             ELSE p

\* "Calc player position": a jumping player moves by its speed, lands if it
\* reached the ground line, and then gains the gravity; a grounded player
\* starts a jump on an A edge.
PlayerStep(p, a_pressed, gravity, duration) ==
    LET y1 == p.position.y + p.vertical_speed
        landed == Floor(y1) >= DINO_GROUNDED_Y
    IN  IF p.is_jumping
        THEN [position |-> [x |-> p.position.x,
                            y |-> IF landed THEN NumNew(DINO_GROUNDED_Y) ELSE y1],
              vertical_speed |-> p.vertical_speed + gravity,
              is_jumping |-> ~landed]
        ELSE IF a_pressed
             THEN [p EXCEPT !.vertical_speed = (-gravity) * duration,
                            !.is_jumping = TRUE]
             ELSE p

\* The part of Game::frame after the pause and game-over checks: one
\* simulated frame. a_pressed is is_just_pressed(Button::A); rnd is the value
\* agb::rng::gen() returns if it is called.
Simulate(a_pressed, rnd) ==
    LET fc1   == frame_count + 1
        fcl1  == frames_current_level + 1
        fsls1 == frames_since_last_spawn + 1
        \* Update random spawn info
        refill == spawn_queue = <<>>
        q1    == IF refill THEN RefillEntries(rnd) ELSE spawn_queue
        \* Process level up
        level_up == LevelUpDue(fcl1, settings.frames_to_level_up)
        v1    == IF level_up
                 THEN scroll_velocity + settings.scroll_velocity_increase_per_level
                 ELSE scroll_velocity
        \* Calc player position
        p1    == PlayerStep(player, a_pressed, gravity_px_per_square_frame,
                            settings.jump_duration_frames)
        \* Spawn enemy
        fires == SpawnFires(fsls1, Head(q1))
        q2    == IF fires THEN Tail(q1) ELSE q1
        fsls2 == IF fires THEN 0 ELSE fsls1
        e1    == IF fires /\ Len(enemies) < capacity
                 THEN Append(enemies, SpawnEnemy(Head(q1)))
                 ELSE enemies
        \* Calc enemies' position and collision detection
        prect == TranslateRect(DINO_COLLISION_RECT, p1.position)
        early == overflow_checks /\ prect.overflow
        pass  == IF early
                 THEN [enemies |-> e1, total_enemies_out |-> 0,
                       is_collided |-> FALSE, panicked |-> TRUE]
                 ELSE EnemyPass(e1, 1,
                                [enemies |-> e1, total_enemies_out |-> 0,
                                 is_collided |-> FALSE, panicked |-> FALSE],
                                p1.position, prect.rect, v1, overflow_checks)
    IN  /\ frame_count' = fc1
        /\ frames_current_level' = IF level_up THEN 0 ELSE fcl1
        /\ frames_since_last_spawn' = fsls2
        /\ spawn_queue' = q2
        /\ rng_out' = IF refill THEN Append(rng_out, rnd) ELSE rng_out
        /\ scroll_velocity' = v1
        /\ speed_level' = IF level_up THEN speed_level + 1 ELSE speed_level
        /\ player' = p1
        /\ panicked' = pass.panicked
        /\ IF pass.panicked
           THEN /\ enemies' = pass.enemies
                /\ UNCHANGED <<state, background_position>>
           ELSE /\ state' = IF pass.is_collided THEN Over(CurrentScore(fc1)) ELSE state
                \* Remove first n enemies which are out of screen
                /\ enemies' = Drain(pass.enemies, pass.total_enemies_out)
                /\ background_position' =
                       [background_position EXCEPT !.x = @ + v1]

\* Mutant of StartToggle: the Pause arm does not resume.
StartToggleNoResume(st) == IF st = Continue THEN Pause ELSE st

\* Mutant of StartToggle: the Continue arm does not pause.
StartToggleNoPause(st) == IF st = Pause THEN Continue ELSE st

\* The match under `if is_just_pressed(START)`: Continue and Pause swap (and
\* the call returns); any other state is left alone.
StartToggle(st) ==
    IF st = Continue THEN Pause
    ELSE IF st = Pause THEN Continue
    ELSE st

\* Mutant of SkipsSimulation: the Over arm is missing.
SkipsSimulationPauseOnly(st) == st = Pause

\* Mutant of SkipsSimulation: the Pause arm is missing.
SkipsSimulationOverOnly(st) == st.tag = "Over"

\* The second match: the Over and Pause arms return before the simulation.
SkipsSimulation(st) == st.tag = "Over" \/ st = Pause

\* Mutant of OverNext: only the A button restarts.
OverNextAOnly(st, a_pressed, start_pressed) ==
    IF a_pressed THEN Restart ELSE st

\* The Over arm: an A or START edge asks for a restart.
OverNext(st, a_pressed, start_pressed) ==
    IF a_pressed \/ start_pressed THEN Restart ELSE st

\* Game::frame, called with the keys the controller reads in input.update().
Frame(keys, rnd) ==
    /\ ~panicked
    /\ input' = keys
    /\ UNCHANGED <<settings, overflow_checks, gravity_px_per_square_frame, capacity>>
    /\ UNCHANGED hostvars
    /\ LET start == IsJustPressed(input, keys, "START")
           a     == IsJustPressed(input, keys, "A")
       IN  IF start /\ state \in {Continue, Pause}
           THEN /\ state' = StartToggle(state)
                /\ UNCHANGED <<simvars, panicked>>
           ELSE IF SkipsSimulation(state)
           THEN /\ state' = IF state.tag = "Over" THEN OverNext(state, a, start) ELSE state
                /\ UNCHANGED <<simvars, panicked>>
           ELSE /\ frame_count < MaxFrames
                /\ Simulate(a, rnd)

\* agb::rng::gen() is called only by a refill: no value is drawn otherwise.
RngGen == IF spawn_queue = <<>> THEN RndValues ELSE {0}

Next == \E keys \in SUBSET Buttons : \E rnd \in RngGen : Frame(keys, rnd)

Spec == Init /\ [][Next]_vars

\* ============================================================ properties
\* The frame call of this step saw a START (an A) edge-press.
StartEdge == IsJustPressed(input, input', "START")

AEdge == IsJustPressed(input, input', "A")

\* The frame call of this step ran the simulation.
SimulatedStep == frame_count' = frame_count + 1

\* The collision test of the enemy loop for enemy e and player p, both at the
\* positions they have in the loop.
Hit(p, e) ==
    /\ GatePasses(p.position.x, e.position.x)
    /\ Touches(TranslateRect(EnemyRect(e.kind), e.position).rect,
               TranslateRect(DINO_COLLISION_RECT, p.position).rect).result

\* Some enemy of pool es overlaps player p.
SomeHit(p, es) == \E i \in 1..Len(es) : Hit(p, es[i])

\* How many enemies of pool es the loop counts as off-screen.
OutCount(es) == Cardinality({i \in 1..Len(es) : IsOut(es[i])})

\* The spawn queue at the delay check of a simulated step: as refilled from
\* the value drawn in this step if it was empty.
QueueAtCheck ==
    IF spawn_queue = <<>>
    THEN LET rnd == rng_out'[Len(rng_out')]
         IN  [i \in 1..4 |-> (rnd \div (256 ^ (i - 1))) % 256]
    ELSE spawn_queue

\* The delay check of a simulated step holds.
FiresNow == frames_since_last_spawn + 1 > (Head(QueueAtCheck) % 8) * 12 + 40

\* The last spawn opportunity was dropped: the counter has just been reset and
\* the enemy at the back of the pool is not a new one.
JustDropped ==
    /\ frame_count > 0
    /\ frames_since_last_spawn = 0
    /\ enemies # <<>>
    /\ enemies[Len(enemies)].position.x # 240 * 256 - scroll_velocity

\* C1: a START edge-press in Continue sets the state to Pause, in Pause to
\* Continue, and that frame call changes nothing else in the session.
C1_StartTogglesPause ==
    [][(StartEdge /\ state \in {Continue, Pause})
        => /\ state' = (IF state = Continue THEN Pause ELSE Continue)
           /\ UNCHANGED simvars]_vars

\* C1 witness: the session was paused by a START press in mid-game.
C1_Witness ==
    state = Pause /\ "START" \in input /\ frame_count > 0 /\ enemies # <<>>

\* C2: a frame call made in Pause without a START edge, or in Over, leaves
\* every field of the simulation as it was, for every input sample.
C2_FrozenWhilePausedOrOver ==
    [][((state = Pause /\ ~StartEdge) \/ state.tag = "Over")
        => UNCHANGED simvars]_vars

\* C2 witness: a frame was called on a paused session with START released,
\* while the player was in the air and an enemy on the screen.
C2_Witness ==
    /\ state = Pause
    /\ "START" \notin input
    /\ player.is_jumping
    /\ enemies # <<>>

C4_OverToRestart ==
    [][/\ state.tag = "Over"
           => state' = IF AEdge \/ StartEdge THEN Restart ELSE state
       /\ (state' = Restart /\ state # Restart) => state.tag = "Over"]_vars

\* C4 witness: Restart has just been entered from Over by an A press.
C4_Witness ==
    /\ state = Restart
    /\ ~panicked
    /\ input = {"A"}
    /\ SomeHit(player, enemies)

\* C5 (as stated): a frame call that sees a START edge ends in Restart,
\* whatever state it starts in.
C5_StartAlwaysRestarts ==
    [][StartEdge => state' = Restart]_vars

\* C5 (amended): a START edge-press takes the session to Restart from Over;
\* from Continue it takes it to Pause and from Pause to Continue.
C5_StartByState ==
    [][StartEdge
        => /\ state.tag = "Over" => state' = Restart
           /\ state = Continue => state' = Pause
           /\ state = Pause => state' = Continue]_vars

\* C5 witness: Restart has just been entered from Over by a START press.
C5_Witness ==
    /\ state = Restart
    /\ ~panicked
    /\ input = {"START"}
    /\ SomeHit(player, enemies)

\* C6: once the state is Restart, no later frame call moves the session to
\* another state.
C6_RestartTerminal ==
    [][state = Restart => state' = Restart]_vars

\* C7: the pool never holds more than settings.max_enemies_displayed enemies.
C7_PoolBounded == Len(enemies) <= settings.max_enemies_displayed

\* C7 witness: the pool is at its limit and a spawn has just been refused.
C7_Witness ==
    /\ Len(enemies) = settings.max_enemies_displayed
    /\ JustDropped

\* C8: in a Continue frame the spawn fires exactly when the incremented
\* counter exceeds the delay of the front entry; then the front entry is
\* popped and the counter reset, otherwise queue, pool and counter are left
\* alone; at most one entry is consumed.
C8_SpawnFiresOnDelay ==
    [][(state = Continue /\ SimulatedStep)
        => IF FiresNow
           THEN /\ spawn_queue' = Tail(QueueAtCheck)
                /\ frames_since_last_spawn' = 0
           ELSE /\ spawn_queue' = QueueAtCheck
                /\ frames_since_last_spawn' = frames_since_last_spawn + 1
                /\ panicked' \/ Len(enemies') = Len(enemies) - OutCount(enemies)
                /\ \A i \in 1..Len(enemies') :
                       \E j \in 1..Len(enemies) :
                           /\ enemies'[i].kind = enemies[j].kind
                           /\ enemies'[i].position.y = enemies[j].position.y]_vars

\* C8 witness: a spawn has just fired on an entry whose delay is 52 frames.
C8_Witness ==
    /\ state = Continue
    /\ frames_since_last_spawn = 0
    /\ frame_count = 41 + 53
    /\ Len(spawn_queue) = 2

\* C9: a spawn that fires on a full pool creates no enemy but still consumes
\* the entry and resets the counter; with room it appends one enemy at the
\* back, of the decoded kind, at x = 240 and y = CACTUS_Y or (variant + 6) * 8
\* (the enemy is then moved by the pass of the same frame).
C9_SpawnIntoPool ==
    [][(SimulatedStep /\ FiresNow /\ ~panicked')
        => LET b == Head(QueueAtCheck)
               bird == ((b \div 8) % 8) < 4
               n == Len(enemies) - OutCount(enemies)
           IN  /\ spawn_queue' = Tail(QueueAtCheck)
               /\ frames_since_last_spawn' = 0
               /\ IF Len(enemies) >= settings.max_enemies_displayed
                  THEN /\ Len(enemies') = n
                       /\ \A i \in 1..n :
                              /\ enemies'[i].kind = enemies[i + OutCount(enemies)].kind
                              /\ enemies'[i].position.y =
                                     enemies[i + OutCount(enemies)].position.y
                  ELSE /\ Len(enemies') = n + 1
                       /\ enemies'[n + 1] =
                              [kind |-> IF bird THEN "Bird" ELSE "Cactus",
                               position |->
                                   [x |-> 240 * 256 - scroll_velocity',
                                    y |-> IF bird
                                          THEN (((b \div 64) % 4) + 6) * 8 * 256
                                          ELSE 82 * 256]]]_vars

\* C9 witness: with two enemies allowed, a third spawn has just been dropped.
C9_Witness ==
    /\ settings.max_enemies_displayed = 2
    /\ Len(enemies) = 2
    /\ JustDropped
    /\ Len(spawn_queue) = 1

\* C10: the queue is refilled only when empty at the start of a Continue
\* frame, by one draw giving the 4 bytes of the value, low byte first; nothing
\* is drawn otherwise; the queue never exceeds 4 entries and entries leave it
\* from the front, one at a time, in the order drawn.
C10_RefillOnlyInContinue ==
    [][/\ Len(spawn_queue') <= 4
       /\ rng_out' # rng_out
           => /\ state = Continue
              /\ spawn_queue = <<>>
              /\ Len(rng_out') = Len(rng_out) + 1
              /\ SubSeq(rng_out', 1, Len(rng_out)) = rng_out
       /\ (spawn_queue # <<>> \/ ~SimulatedStep) => rng_out' = rng_out
       /\ SimulatedStep
           => /\ spawn_queue' \in {QueueAtCheck, Tail(QueueAtCheck)}
              /\ spawn_queue = <<>> => rng_out' # rng_out
       /\ ~SimulatedStep => spawn_queue' = spawn_queue]_vars

\* ------------------------------------------------ decoding of spawn bytes
\* A session whose first random value has any byte 0..255 as its low byte,
\* run with no key pressed: the first spawn decodes that byte.
DecodeSettings == CHOOSE s \in SettingsSet : s.max_enemies_displayed = 2

InitDecode ==
    /\ FromSettings(DecodeSettings)
    /\ overflow_checks \in BOOLEAN
    /\ input = {}
    /\ HostInit

RngGenDecode == IF spawn_queue = <<>> THEN 0..255 ELSE {0}

NextDecode == \E rnd \in RngGenDecode : Frame({}, rnd)

SpecDecode == InitDecode /\ [][NextDecode]_vars

JumpHeights == {20, 45, 60}

JumpDurations == {4, 8, 16}

JumpSettingsSet ==
    { [init_scroll_velocity |-> 870,
       scroll_velocity_increase_per_level |-> 25,
       frames_to_level_up |-> 60,
       jump_height_px |-> h,
       jump_duration_frames |-> d,
       max_enemies_displayed |-> 1,
       animation_interval_frames |-> 10,
       spawn_interval_frames |-> 60,
       hi_score |-> 1234] : h \in JumpHeights, d \in JumpDurations }

InitJump ==
    /\ \E s \in JumpSettingsSet : FromSettings(s)
    /\ overflow_checks \in BOOLEAN
    /\ input = {}
    /\ HostInit

NextJump ==
    \E rnd \in RngGen : Frame(IF frame_count = 0 THEN {"A"} ELSE {}, rnd)

SpecJump == InitJump /\ [][NextJump]_vars

\* The height of the player above the ground line, as a Number.
HeightAboveGround == 82 * 256 - player.position.y

\* C12: in an uninterrupted jump started on frame 0 the player is off the
\* ground on frame 1 and back at exactly grounded_y, no longer jumping, no
\* later than frame D + 1 (frame k ends with frame_count = k + 1).
C12_JumpBackWithinDuration ==
    /\ frame_count = 2 => player.position.y # 82 * 256
    /\ frame_count >= settings.jump_duration_frames + 2
           => (~player.is_jumping /\ player.position.y = 82 * 256)

\* C13: the greatest height reached in an uninterrupted jump differs from
\* jump_height_px by less than one pixel: the player never gets a pixel or
\* more above H, and at the apex (after D moves) is less than a pixel below.
C13_JumpPeakIsHeight ==
    /\ HeightAboveGround < (settings.jump_height_px + 1) * 256
    /\ frame_count = settings.jump_duration_frames + 1
           => HeightAboveGround > (settings.jump_height_px - 1) * 256

\* ------------------------------------------------------- off-screen pruning
\* The pool is ordered by x, front to back.
OrderedByX(es) ==
    \A i \in 1..Len(es) : \A j \in 1..Len(es) :
        i < j => es[i].position.x <= es[j].position.x

\* The indexes of the enemies of es that are left of the pruning line.
OutIndexes(es) == {i \in 1..Len(es) : es[i].position.x < (-32) * 256}

\* C14: the pool is always ordered by x, front to back, so the enemies with
\* floor(x) < -32 form a prefix; a completed simulated frame removes exactly
\* those enemies, from the front, and keeps every other enemy in its order
\* (moved by the scroll velocity); no other frame call removes an enemy.
C14_PruneFrontBatch ==
    /\ [](OrderedByX(enemies) /\ OutIndexes(enemies) = 1..Cardinality(OutIndexes(enemies)))
    /\ [][/\ (SimulatedStep /\ ~panicked')
              => LET n == Cardinality(OutIndexes(enemies))
                     kept == Len(enemies) - n
                 IN  /\ Len(enemies') \in {kept, kept + 1}
                     /\ \A k \in 1..kept :
                            /\ n + k \notin OutIndexes(enemies)
                            /\ enemies'[k] =
                                   [enemies[n + k] EXCEPT
                                       !.position.x = @ - scroll_velocity']
          /\ (SimulatedStep /\ panicked') => Len(enemies') >= Len(enemies)
          /\ ~SimulatedStep => enemies' = enemies]_vars

\* C14 witness: with two enemies allowed and three spawn entries consumed
\* (the third on a full pool), the first enemy has been pruned and the
\* second, still on the screen, is now alone at the front of the pool.
C14_Witness ==
    /\ settings.max_enemies_displayed = 2
    /\ 4 * Len(rng_out) - Len(spawn_queue) >= 3
    /\ Len(enemies) = 1
    /\ enemies[1].position.x >= (-32) * 256
    /\ enemies[1].position.x < 120 * 256
    /\ ~panicked

\* ------------------------------------------- scrolling at a constant speed
\* A session scrolling at 3.4 px/frame (870 / 256) that never levels up
\* within the frames explored and is never paused: only A is ever pressed.
ScrollSettings ==
    [init_scroll_velocity |-> 870,
     scroll_velocity_increase_per_level |-> 25,
     frames_to_level_up |-> 1000,
     jump_height_px |-> 40,
     jump_duration_frames |-> 3,
     max_enemies_displayed |-> 2,
     animation_interval_frames |-> 10,
     spawn_interval_frames |-> 60,
     hi_score |-> 1234]

InitScroll ==
    /\ FromSettings(ScrollSettings)
    /\ overflow_checks \in BOOLEAN
    /\ input = {}
    /\ HostInit

NextScroll == \E keys \in SUBSET {"A"} : \E rnd \in RngGen : Frame(keys, rnd)

SpecScroll == InitScroll /\ [][NextScroll]_vars

\* The number of frames in which the enemy has been moved since it was
\* spawned at x = 240, at 870 / 256 px per frame.
MovesOf(enemy) == (240 * 256 - enemy.position.x) \div 870

\* C15: at a constant 3.4 px/frame, with no pause and no collision, an enemy
\* spawned at x = 240 is in the pool at the end of its spawn frame and of each
\* of the 80 following frames, and is removed by the 81st following frame.
\* The first enemy of a session, spawned in frame 41, is in the pool up to
\* the end of frame 121 and gone at the end of frame 122.
C15_GoneAfter81Frames ==
    /\ [](\A i \in 1..Len(enemies) :
             /\ enemies[i].position.x = 240 * 256 - 870 * MovesOf(enemies[i])
             /\ MovesOf(enemies[i]) \in 1..81)
    /\ []((state = Continue /\ ~panicked)
             => /\ frame_count \in 41..121
                    => /\ enemies # <<>>
                       /\ MovesOf(enemies[1]) = frame_count - 40
                /\ frame_count = 122
                    => \A i \in 1..Len(enemies) : MovesOf(enemies[i]) <= 41)
    /\ [][(SimulatedStep /\ state' = Continue /\ ~panicked')
             => \A i \in 1..Len(enemies) :
                    IF MovesOf(enemies[i]) = 81
                    THEN \A j \in 1..Len(enemies') :
                             MovesOf(enemies'[j]) <= 41
                    ELSE \E j \in 1..Len(enemies') :
                             /\ enemies'[j].kind = enemies[i].kind
                             /\ MovesOf(enemies'[j]) = MovesOf(enemies[i]) + 1]_vars

\* C15 witness: the 81st frame after the first spawn has just ended in
\* Continue: the first enemy is gone and the second is alone in the pool.
C15_Witness ==
    /\ settings = ScrollSettings
    /\ state = Continue
    /\ ~panicked
    /\ frame_count = 122
    /\ Len(enemies) = 1
    /\ scroll_velocity = 870

\* ---------------------------------------------------------------- scoring
\* C16: the score derived from frame_count never decreases over a frame call
\* made in Continue; a frame call made in Over(s) leaves frame_count as it is
\* and, while the state stays Over, keeps the same s; the s of an Over state
\* is the score derived from frame_count.
C16_ScoreMonotoneThenFrozen ==
    /\ [](state.tag = "Over" => state.score = frame_count \div 6)
    /\ [][/\ state = Continue => frame_count' \div 6 >= frame_count \div 6
          /\ state.tag = "Over"
              => /\ frame_count' = frame_count
                 /\ state'.tag = "Over" => state' = state]_vars

\* C16 witness: the game is over with a positive score, carried by Over and
\* equal to the score derived from the frame counter, which stopped one frame
\* short of the next point; no key is held.
C16_Witness ==
    /\ state.tag = "Over"
    /\ state.score = frame_count \div 6
    /\ state.score > 0
    /\ frame_count % 6 = 5
    /\ player.is_jumping
    /\ input = {}

\* ------------------------------------------------- the score as a function
\* A session that does not scroll and levels up once in 2 * 10^9 frames: its
\* enemies stay at x = 240, so nothing ever collides and no counter but
\* frame_count grows without bound. With no key pressed and every random
\* value 0 (a bird after 40 frames, four times per draw) the session after
\* fc frames is the one SessionAfter(StillSettings, fc) describes.
StillSettings ==
    [init_scroll_velocity |-> 0,
     scroll_velocity_increase_per_level |-> 0,
     frames_to_level_up |-> 2000000000,
     jump_height_px |-> 45,
     jump_duration_frames |-> 16,
     max_enemies_displayed |-> 2,
     animation_interval_frames |-> 10,
     spawn_interval_frames |-> 60,
     hi_score |-> 1234]

\* The smaller of two numbers.
Min(a, b) == IF a < b THEN a ELSE b

\* The session of settings s (not scrolling) after fc frames in which no key
\* was pressed and every random value drawn was 0; rng_out logs the values
\* drawn from this point on.
SessionAfter(s, fc) ==
    LET period == SpawnDelay(0) + 1
        fired  == fc \div period
        queued == IF fc = 0 THEN 0
                  ELSE IF fc % period = 0 THEN (4 - (fired % 4)) % 4
                  ELSE 4 - (fired % 4)
    IN  /\ settings = s
        /\ state = Continue
        /\ frame_count = fc
        /\ frames_current_level = fc % s.frames_to_level_up
        /\ frames_since_last_spawn = fc % period
        /\ speed_level = fc \div s.frames_to_level_up
        /\ background_position = [x |-> NumNew(0), y |-> NumNew(0)]
        /\ scroll_velocity = s.init_scroll_velocity
        /\ player = [position |-> [x |-> NumNew(16), y |-> NumNew(DINO_GROUNDED_Y)],
                     vertical_speed |-> NumNew(0),
                     is_jumping |-> FALSE]
        /\ gravity_px_per_square_frame =
               NumDiv(NumNew(2 * s.jump_height_px),
                      NumNew(s.jump_duration_frames * s.jump_duration_frames))
        /\ enemies = [i \in 1..Min(fired, s.max_enemies_displayed) |-> SpawnEnemy(0)]
        /\ capacity = WithCapacity(s.max_enemies_displayed)
        /\ spawn_queue = [i \in 1..queued |-> 0]
        /\ rng_out = <<>>
        /\ panicked = FALSE

\* Frame counters around the first points, around the cap, and at the top of
\* the range of the model's integers.
ScoreInputs ==
    (0..12) \cup (5999990..6000010) \cup {2000000000, 2147483646, 2147483647}

InitScore ==
    /\ \E fc \in ScoreInputs : SessionAfter(StillSettings, fc)
    /\ overflow_checks \in BOOLEAN
    /\ input = {}
    /\ HostInit

\* A call of Game::current_score (render and the collision branch make it).
CurrentScoreCall ==
    /\ ~panicked
    /\ returned' = [op |-> "current_score", value |-> CurrentScore(frame_count)]
    /\ UNCHANGED <<settings, overflow_checks, state, input, simvars,
                   gravity_px_per_square_frame, capacity, panicked,
                   oam, save_buffer, save_origin>>

NextScore == CurrentScoreCall

SpecScore == InitScore /\ [][NextScore]_vars

\* C17: the score is floor(frame_count / 6) below 6,000,000 frames and 999999
\* from there on; it never exceeds 999999 and never drops as the counter
\* grows, in particular not where the cap takes over.
C17_ScoreCapped ==
    /\ returned.op = "current_score"
           => /\ frame_count < 6000000
                  => /\ 6 * returned.value <= frame_count
                     /\ frame_count < 6 * returned.value + 6
              /\ frame_count >= 6000000 => returned.value = 999999
              /\ returned.value <= 999999
    /\ \A a \in ScoreInputs : \A b \in ScoreInputs :
           a <= b => CurrentScore(a) <= CurrentScore(b)

\* C17 witness: the score was asked for on the first capped frame counter.
C17_Witness ==
    /\ returned = [op |-> "current_score", value |-> 999999]
    /\ frame_count = 6000000

\* ------------------------------------------------------------ save buffer
\* a | b on unsigned integers, bit by bit.
RECURSIVE BitOr(_, _)
BitOr(a, b) ==
    IF a = 0 THEN b
    ELSE IF b = 0 THEN a
    ELSE (IF a % 2 = 1 \/ b % 2 = 1 THEN 1 ELSE 0) + 2 * BitOr(a \div 2, b \div 2)

\* u32::to_le_bytes: byte i (0-based) of value.
ToLeBytes(value) == [i \in 1..4 |-> (value \div (256 ^ (i - 1))) % 256]

\* Mutant of FromU32: the bytes are stored from arr[0] on.
FromU32AtIndex(value) ==
    [k \in 1..5 |-> IF k = 5 THEN 0 ELSE ToLeBytes(value)[k]]

\* SaveBuffer::from(value: u32): arr[index + 1] = byte index of the value;
\* arr[0] stays 0.
FromU32(value) ==
    [k \in 1..5 |-> IF k = 1 THEN 0 ELSE ToLeBytes(value)[k - 1]]

\* SaveBuffer::get_score: the fold over self.0[1..], index counted from 0.
RECURSIVE GetScoreFold(_, _)
GetScoreFold(buf, n) ==
    IF n = 0 THEN 0
    ELSE BitOr(GetScoreFold(buf, n - 1), buf[n + 1] * (2 ^ ((n - 1) * 8)))

GetScore(buf) == GetScoreFold(buf, 4)

\* SaveBuffer::is_savedata_exist.
IsSavedataExist(buf) == buf[1] = 0

\* The u32 values saved, and the bytes the host can read into a buffer
\* (a score byte 4 of 128 or more gives a score beyond the model's integers).
SavedScores == {0, 1, 255, 256, 65535, 65536, 999999, 16777216, 305419896, 2147483647}

SavedArrays ==
    { <<b0, b1, b2, b3, b4>> :
        b0 \in {0, 1, 255}, b1 \in {0, 1, 255}, b2 \in {0, 128},
        b3 \in {0, 7}, b4 \in {0, 127} }

\* SaveBuffer::new().
SaveNew ==
    /\ save_buffer' = SaveBufferNew
    /\ save_origin' = [by |-> "new", value |-> 0]
    /\ returned' = NoCall

\* SaveBuffer::from(value) for a u32.
SaveFromU32(value) ==
    /\ save_buffer' = FromU32(value)
    /\ save_origin' = [by |-> "u32", value |-> value]
    /\ returned' = NoCall

\* SaveBuffer::from(arr) for a [u8; 5]; also a buffer filled through
\* as_mut_array.
SaveFromArray(arr) ==
    /\ save_buffer' = arr
    /\ save_origin' = [by |-> "array", value |-> 0]
    /\ returned' = NoCall

\* A call of is_savedata_exist on the buffer.
CallIsSavedataExist ==
    /\ returned' = [op |-> "is_savedata_exist", value |-> IsSavedataExist(save_buffer)]
    /\ UNCHANGED <<save_buffer, save_origin>>

\* A call of get_score on the buffer.
CallGetScore ==
    /\ returned' = [op |-> "get_score", value |-> GetScore(save_buffer)]
    /\ UNCHANGED <<save_buffer, save_origin>>

InitSave ==
    /\ FromSettings(StillSettings)
    /\ overflow_checks \in BOOLEAN
    /\ input = {}
    /\ HostInit

NextSave ==
    /\ UNCHANGED <<settings, overflow_checks, state, input, simvars,
                   gravity_px_per_square_frame, capacity, panicked, oam>>
    /\ \/ SaveNew
       \/ \E value \in SavedScores : SaveFromU32(value)
       \/ \E arr \in SavedArrays : SaveFromArray(arr)
       \/ CallIsSavedataExist
       \/ CallGetScore

SpecSave == InitSave /\ [][NextSave]_vars

\* C18 (as stated): is_savedata_exist reports a save exactly when byte 0 of
\* the buffer is not 0; the empty buffer of SaveBuffer::new() reports none.
C18_ZeroMeansNoSave ==
    returned.op = "is_savedata_exist"
        => /\ returned.value = (save_buffer[1] # 0)
           /\ save_origin.by = "new" => returned.value = FALSE

\* C19: get_score of a buffer made from a u32 returns that u32, and for any
\* buffer it is bytes 1..4 read as a little-endian number, whatever byte 0.
C19_ScoreRoundTrip ==
    returned.op = "get_score"
        => /\ returned.value = save_buffer[2] + 256 * save_buffer[3]
                               + 65536 * save_buffer[4] + 16777216 * save_buffer[5]
           /\ save_origin.by = "u32" => returned.value = save_origin.value

\* C19 witness: 0x12345678 was saved and read back from <<0, 78, 56, 34, 12>>
\* (hexadecimal bytes).
C19_Witness ==
    /\ returned.op = "get_score"
    /\ save_origin = [by |-> "u32", value |-> 305419896]
    /\ save_buffer = <<0, 120, 86, 52, 18>>
    /\ returned.value = 305419896

\* ----------------------------------------------------------- Game::render
\* frame_ranger: the animation frame for a frame counter.
FrameRanger(count, start, end, delay) ==
    ((count \div delay) % (end + 1 - start)) + start

\* The texts render draws, one character per element.
TEXT_SCORE == <<"S", "C", "O", "R", "E">>

TEXT_HI == <<"H", "I">>

TEXT_GAME_OVER ==
    <<"G", " ", "A", " ", "M", " ", "E", " ", " ", "O", " ", "V", " ", "E", " ", "R">>

TEXT_PRESS_A ==
    <<"P", "R", "E", "S", "S", " ", "A", " ", "T", "O", " ", "R", "E", "S", "T", "A", "R", "T">>

TEXT_PAUSED == <<"P", " ", "A", " ", "U", " ", "S", " ", "E", " ", "D">>

TEXT_PRESS_START ==
    <<"P", "R", "E", "S", "S", " ", "S", "T", "A", "R", "T", " ", "T", "O", " ", "R", "E", "S", "U", "M", "E">>

\* A loop of `oam_frame.next()?.set(&object)` over objs with free slots left:
\* the objects set, the slots left, and whether every next() gave a slot.
DrawObjects(objs, free) ==
    LET n == Min(Len(objs), free)
    IN  [drawn |-> SubSeq(objs, 1, n), free |-> free - n, ok |-> n = Len(objs)]

\* The objects draw_score_digits asks for: six digits, lowest first.
ScoreDigitObjects(score, position, align) ==
    [k \in 1..6 |->
        LET digit_pos == k - 1
            relative == IF align = "Left" THEN 7 * (5 - digit_pos)
                        ELSE IF align = "Center" THEN 7 * (2 - digit_pos)
                        ELSE 7 * (-1 - digit_pos)
        IN  [sprite |-> [name |-> "number", index |-> (score \div (10 ^ digit_pos)) % 10],
             position |-> [x |-> position.x + relative, y |-> position.y]]]

\* The objects draw_str asks for: one per character that is not whitespace.
StrObjects(str, position, align) ==
    LET str_len == Len(str)
        all == [k \in 1..str_len |->
                  LET idx == k - 1
                      relative == IF align = "Left" THEN 7 * idx
                                  ELSE IF align = "Center" THEN 7 * (idx - str_len \div 2)
                                  ELSE 7 * (idx - str_len)
                  IN  [sprite |-> [name |-> "char", glyph |-> str[k]],
                       position |-> [x |-> position.x + relative, y |-> position.y]]]
    IN  SelectSeq(all, LAMBDA o : o.sprite.glyph # " ")

\* The player's object.
PlayerObject(sprite_index) ==
    [sprite |-> [name |-> "dino",
                 index |-> IF state.tag = "Over" THEN 2
                           ELSE IF player.is_jumping THEN 1
                           ELSE sprite_index],
     position |-> [x |-> Floor(player.position.x), y |-> Floor(player.position.y)]]

\* The enemies' objects, front of the pool first.
EnemyObjects(sprite_index) ==
    [k \in 1..Len(enemies) |->
        [sprite |-> IF enemies[k].kind = "Bird"
                    THEN [name |-> "bird", index |-> sprite_index]
                    ELSE [name |-> "cactus", index |-> 0],
         position |-> [x |-> Floor(enemies[k].position.x),
                       y |-> Floor(enemies[k].position.y)]]]

\* The two lines of modal text of the state, if it has any.
ModalTop ==
    IF state.tag = "Over" THEN StrObjects(TEXT_GAME_OVER, [x |-> 120, y |-> 60], "Center")
    ELSE IF state = Pause THEN StrObjects(TEXT_PAUSED, [x |-> 120, y |-> 60], "Center")
    ELSE <<>>

ModalBottom ==
    IF state.tag = "Over" THEN StrObjects(TEXT_PRESS_A, [x |-> 120, y |-> 75], "Center")
    ELSE IF state = Pause THEN StrObjects(TEXT_PRESS_START, [x |-> 120, y |-> 75], "Center")
    ELSE <<>>

\* The numbers of free object slots an OamIterator is handed to render with.
SlotBudgets == {0, 1, 2, 5, 14, 30, 128}

\* Game::render with an OamIterator that has `slots` free slots. The player
\* and enemy loops return None at the first missing slot; the results of the
\* draw_score_digits and draw_str calls are dropped.
Render(slots) ==
    LET sprite_index ==
            FrameRanger(frame_count, 0, 1, settings.animation_interval_frames)
        score_value_right == 236
        score_y == BG_TILES_OFFSET_Y * 8 - 9
        hi_score_y == BG_TILES_OFFSET_Y * 8 - 18
        p  == DrawObjects(<<PlayerObject(sprite_index)>>, slots)
        e  == DrawObjects(EnemyObjects(sprite_index), p.free)
        d1 == DrawObjects(ScoreDigitObjects(CurrentScore(frame_count),
                              [x |-> score_value_right, y |-> score_y], "Right"),
                          e.free)
        d2 == DrawObjects(StrObjects(TEXT_SCORE,
                              [x |-> score_value_right - 7 * 6 - 2, y |-> score_y + 1],
                              "Right"),
                          d1.free)
        d3 == DrawObjects(ScoreDigitObjects(settings.hi_score,
                              [x |-> score_value_right, y |-> hi_score_y], "Right"),
                          d2.free)
        d4 == DrawObjects(StrObjects(TEXT_HI,
                              [x |-> score_value_right - 7 * 6 - 2, y |-> hi_score_y + 1],
                              "Right"),
                          d3.free)
        d5 == DrawObjects(ModalTop, d4.free)
        d6 == DrawObjects(ModalBottom, d5.free)
    IN  /\ ~panicked
        /\ returned = NoCall
        /\ oam' = IF ~p.ok THEN p.drawn
                  ELSE IF ~e.ok THEN p.drawn \o e.drawn
                  ELSE p.drawn \o e.drawn \o d1.drawn \o d2.drawn \o d3.drawn
                       \o d4.drawn \o d5.drawn \o d6.drawn
        /\ returned' = [op |-> "render",
                        value |-> IF p.ok /\ e.ok THEN "Some" ELSE "None"]
        /\ UNCHANGED <<settings, overflow_checks, state, input, simvars,
                       gravity_px_per_square_frame, capacity, panicked,
                       save_buffer, save_origin>>

\* The end of the host's loop body: the objects go to the screen at vblank
\* and the next iteration starts with a new OamIterator.
Present ==
    /\ returned # NoCall
    /\ oam' = <<>>
    /\ returned' = NoCall
    /\ UNCHANGED <<settings, overflow_checks, state, input, simvars,
                   gravity_px_per_square_frame, capacity, panicked,
                   save_buffer, save_origin>>

InitRender ==
    /\ FromSettings(ScrollSettings)
    /\ overflow_checks \in BOOLEAN
    /\ input = {}
    /\ HostInit

\* The keys held in a frame of the rendered sessions: none or one button.
RenderKeys == {{}, {"A"}, {"START"}}

\* The host loop: frame, then render, then vblank.
NextRender ==
    \/ /\ returned = NoCall
       /\ \E keys \in RenderKeys : \E rnd \in RngGen : Frame(keys, rnd)
    \/ \E slots \in SlotBudgets : Render(slots)
    \/ Present

SpecRender == InitRender /\ [][NextRender]_vars

\* How many objects render has to draw in the current state.
WantedObjects ==
    1 + Len(enemies) + 6 + 5 + 6 + 2
      + (IF state.tag = "Over" THEN 8 + 15 ELSE IF state = Pause THEN 6 + 18 ELSE 0)

\* C20 (as stated): render returns Some(()) exactly when every object it had
\* to draw received a slot, and None when the slots ran out at any point.
C20_ExhaustionReturnsNone ==
    returned.op = "render"
        => (returned.value = "Some") = (Len(oam) = WantedObjects)

\* ------------------------------------------------------------ player motion
\* The gravity constant fixed at session setup, as a raw 24.8 number.
GravityOfSettings ==
    (2 * settings.jump_height_px * 256)
        \div (settings.jump_duration_frames * settings.jump_duration_frames)

\* C21: in a simulated Continue frame a grounded player with an A edge gets
\* vertical_speed = -gravity * jump_duration_frames and is_jumping, at an
\* unchanged position, and without the edge is left alone; a jumping player
\* moves by the same rule with or without an A edge: the speed grows by the
\* gravity and x stays. The gravity is 2 * H / D^2, fixed at setup.
C21_JumpOnlyFromGround ==
    /\ [](gravity_px_per_square_frame = GravityOfSettings)
    /\ [][(state = Continue /\ SimulatedStep)
          => LET edge == "A" \in input' /\ "A" \notin input
             IN  /\ (~player.is_jumping /\ edge)
                     => player' = [position |-> player.position,
                                   vertical_speed |->
                                       -(GravityOfSettings * settings.jump_duration_frames),
                                   is_jumping |-> TRUE]
                 /\ (~player.is_jumping /\ ~edge) => player' = player
                 /\ player.is_jumping
                     => /\ player'.vertical_speed =
                               player.vertical_speed + GravityOfSettings
                        /\ player'.position.x = player.position.x
                        /\ player'.position.y \in
                               {player.position.y + player.vertical_speed, 82 * 256}]_vars

\* C21 witness: a jump has just been started from the ground by an A press,
\* in mid-game; the player is still at ground level.
C21_Witness ==
    /\ state = Continue
    /\ ~panicked
    /\ "A" \in input
    /\ enemies # <<>>
    /\ player = [position |-> [x |-> 16 * 256, y |-> 82 * 256],
                 vertical_speed |->
                     -(GravityOfSettings * settings.jump_duration_frames),
                 is_jumping |-> TRUE]

\* C22: a jumping player first moves by vertical_speed and then gains the
\* gravity; if the move ends at or below the ground line the player is put
\* exactly on it and stops jumping. In every state floor(player.y) <= 82,
\* player.y is exactly 82 when not jumping, and player.x is 16.
C22_MoveThenGravityAndLand ==
    /\ [](/\ player.position.y < 83 * 256
          /\ ~player.is_jumping => player.position.y = 82 * 256
          /\ player.position.x = 16 * 256)
    /\ [][(SimulatedStep /\ player.is_jumping)
          => LET moved == player.position.y + player.vertical_speed
             IN  /\ player'.vertical_speed =
                        player.vertical_speed + gravity_px_per_square_frame
                 /\ IF moved >= 82 * 256
                    THEN player'.position.y = 82 * 256 /\ ~player'.is_jumping
                    ELSE player'.position.y = moved /\ player'.is_jumping]_vars

\* C22 witness: the player has just landed: on the ground line, not jumping,
\* with the downward speed of the last airborne frame plus the gravity.
C22_Witness ==
    /\ ~player.is_jumping
    /\ player.position.y = 82 * 256
    /\ player.vertical_speed =
           gravity_px_per_square_frame * (settings.jump_duration_frames + 1)
    /\ state = Continue

\* ------------------------------------------------- a crowded, slow session
\* A session that scrolls at 1.5 px/frame and doubles its speed at frame 80,
\* with room for three enemies: enemies follow each other closely enough for
\* one to reach the player in the frame in which the one before it is pruned.
\* It is never paused: only A is ever pressed.
CrowdSettings ==
    [init_scroll_velocity |-> 384,
     scroll_velocity_increase_per_level |-> 384,
     frames_to_level_up |-> 80,
     jump_height_px |-> 40,
     jump_duration_frames |-> 3,
     max_enemies_displayed |-> 3,
     animation_interval_frames |-> 10,
     spawn_interval_frames |-> 60,
     hi_score |-> 1234]

InitCrowd ==
    /\ FromSettings(CrowdSettings)
    /\ overflow_checks \in BOOLEAN
    /\ input = {}
    /\ HostInit

NextCrowd == \E keys \in SUBSET {"A"} : \E rnd \in RngGen : Frame(keys, rnd)

SpecCrowd == InitCrowd /\ [][NextCrowd]_vars

\* This step is a frame in which a collision ended the game.
CollisionStep == SimulatedStep /\ state.tag # "Over" /\ state'.tag = "Over"

\* C23: in a frame in which a collision is detected, every enemy that was not
\* off-screen at the start of the pass, before or after the colliding one,
\* is moved by the scroll velocity, an enemy spawned in that frame included,
\* and the enemies that were off-screen are removed.
C23_PassCompletedOnCollision ==
    [][CollisionStep
        => LET out == {i \in 1..Len(enemies) : enemies[i].position.x < (-32) * 256}
               on  == {i \in 1..Len(enemies) : enemies[i].position.x >= (-32) * 256}
               added == Len(enemies') - Cardinality(on)
           IN  /\ added \in {0, 1}
               /\ \A i \in on :
                      enemies'[i - Cardinality(out)] =
                          [enemies[i] EXCEPT !.position.x = @ - scroll_velocity']
               /\ added = 1
                   => enemies'[Len(enemies')].position.x =
                          240 * 256 - scroll_velocity']_vars

\* C23 witness: the game has just ended on the second enemy while a third
\* was behind it, in the frame that pruned the first: the first enemy, spawned
\* 41 frames (39 at 1.5 px and 2 at 3 px) before the second, was left of the
\* pruning line at the start of this frame and not at the start of the one
\* before.
C23_Witness ==
    /\ state.tag = "Over"
    /\ rng_out = <<0>>
    /\ frame_count = 152
    /\ Len(enemies) = 2
    /\ Hit(player, enemies[1])
    /\ LET first == enemies[1].position.x + scroll_velocity - (39 * 384 + 2 * 768)
       IN  first < (-32) * 256 /\ first + scroll_velocity >= (-32) * 256

\* C24 (as stated): in a frame in which a collision sets the state to Over
\* the background scroll position is not advanced.
C24_NoScrollOnCollision ==
    [][CollisionStep => background_position' = background_position]_vars

\* -------------------------------------------------- the collision decision
\* The overlap test on whole-pixel, signed coordinates: the hit-box of enemy
\* e translated by its floored position against the player's hit-box
\* translated by the floored position of player p.
SignedOverlap(p, e) ==
    LET px == 9 + (p.position.x \div 256)
        py == 4 + (p.position.y \div 256)
        bird == e.kind = "Bird"
        ex == 1 + (e.position.x \div 256)
        ey == (IF bird THEN 13 ELSE 6) + (e.position.y \div 256)
        ew == IF bird THEN 28 ELSE 27
        eh == IF bird THEN 7 ELSE 25
    IN  /\ ex < px + 18
        /\ ex + ew > px
        /\ ey < py + 27
        /\ ey + eh > py

\* The broad-phase gate on the raw x values of player p and enemy e.
InGate(p, e) ==
    /\ p.position.x <= e.position.x + 32 * 256
    /\ e.position.x <= p.position.x + 32 * 256

\* C25 (as stated): a completed simulated frame ends the game exactly when
\* some enemy of the pass is inside the gate and its hit-box, translated by
\* its floored position, overlaps the player's, translated likewise, also
\* for enemies whose floored x is negative.
C25_DecisionIsSignedOverlap ==
    [][(SimulatedStep /\ ~panicked')
        => (state'.tag = "Over")
             = (\E i \in 1..Len(enemies') :
                    InGate(player', enemies'[i]) /\ SignedOverlap(player', enemies'[i]))]_vars

\* The precise test of the enemy loop alone, as the code computes it on
\* wrapped u16 coordinates, without the gate in front of it.
PreciseHit(p, e) ==
    Touches(TranslateRect(EnemyRect(e.kind), e.position).rect,
            TranslateRect(DINO_COLLISION_RECT, p.position).rect).result

\* Positions for the gate: enemies of both kinds on every whole pixel from 60
\* left of the player to 60 right of it and half a pixel further, and the
\* player at three x and four heights, one of them above the screen.
GateEnemies ==
    { [kind |-> k, position |-> [x |-> px * 256 + dx * 256 + f, y |-> ey * 256]] :
        k \in {"Bird", "Cactus"}, px \in {0, 16, 100}, dx \in -60..60,
        f \in {0, 128}, ey \in {48, 82} }

GatePlayers ==
    { [position |-> [x |-> px * 256, y |-> py * 256], vertical_speed |-> 0,
       is_jumping |-> TRUE] : px \in {0, 16, 100}, py \in {-6, 30, 55, 82} }

\* C26: whenever the hit-boxes of an enemy and the player overlap, by the
\* code's test or on signed coordinates, the enemy is inside the gate; a
\* completed frame therefore ends the game exactly when the precise test
\* holds for some enemy of the pass, gate or no gate.
C26_GateSuppressesNothing ==
    /\ \A e \in GateEnemies : \A p \in GatePlayers :
           (PreciseHit(p, e) \/ SignedOverlap(p, e)) => InGate(p, e)
    /\ [][(SimulatedStep /\ ~panicked')
           => /\ \A i \in 1..Len(enemies') :
                     PreciseHit(player', enemies'[i]) => InGate(player', enemies'[i])
              /\ (state'.tag = "Over")
                     = (\E i \in 1..Len(enemies') : PreciseHit(player', enemies'[i]))]_vars

\* C26 witness: the game ended on an enemy 38 pixels or more to the right,
\* where its hit-box just reaches the player's and the gate is still open.
C26_Witness ==
    /\ state.tag = "Over"
    /\ \E i \in 1..Len(enemies) :
           /\ PreciseHit(player, enemies[i])
           /\ enemies[i].position.x >= 38 * 256
           /\ enemies[i].position.x <= 48 * 256

\* ---------------------------------------------------------- uniform scroll
\* C27: a completed simulated frame advances background_position.x by the
\* current scroll velocity and moves every enemy that was not off-screen,
\* one spawned in this frame included, left by the same amount, so that
\* x + background_position.x of an enemy stays what it was; kind and y of an
\* enemy never change; other frame calls move neither.
C27_EnemiesScrollWithBackground ==
    [][/\ (SimulatedStep /\ ~panicked')
           => LET n == Cardinality(OutIndexes(enemies))
                  kept == Len(enemies) - n
              IN  /\ background_position'.x = background_position.x + scroll_velocity'
                  /\ background_position'.y = background_position.y
                  /\ \A k \in 1..kept :
                         /\ enemies'[k].position.x + background_position'.x
                                = enemies[n + k].position.x + background_position.x
                         /\ enemies'[k].position.y = enemies[n + k].position.y
                         /\ enemies'[k].kind = enemies[n + k].kind
                  /\ Len(enemies') > kept
                         => enemies'[kept + 1].position.x + background_position'.x
                                = 240 * 256 + background_position.x
       /\ ~SimulatedStep
           => /\ background_position' = background_position
              /\ enemies' = enemies]_vars

\* C27 witness: two level-ups after the first spawn (frame 41, after 40
\* frames at the initial velocity) the first enemy is still as far from the
\* background's origin as when it appeared at x = 240.
C27_Witness ==
    /\ speed_level >= 2
    /\ Len(enemies) = 2
    /\ ~panicked
    /\ enemies[1].position.x + background_position.x
           = 240 * 256 + 40 * settings.init_scroll_velocity

\* ---------------------------------------------------------------- level-up
\* C28: with N = frames_to_level_up, in every state speed_level is
\* frame_count / N, the level timer is frame_count mod N and scroll_velocity
\* is the initial velocity plus speed_level increases; a simulated frame
\* levels up exactly when it is an N-th one, and its enemy motion and
\* background scroll use the velocity it ends with; frame calls that do not
\* simulate (paused, game over) leave counter, timer, level and velocity.
C28_LevelUpEveryNthFrame ==
    /\ [](LET n == settings.frames_to_level_up
          IN  /\ n >= 1
              /\ speed_level * n <= frame_count
              /\ frame_count < (speed_level + 1) * n
              /\ frames_current_level = frame_count - speed_level * n
              /\ scroll_velocity = settings.init_scroll_velocity
                     + speed_level * settings.scroll_velocity_increase_per_level)
    /\ [][/\ SimulatedStep
              => LET nth == frame_count' % settings.frames_to_level_up = 0
                 IN  /\ speed_level' = speed_level + (IF nth THEN 1 ELSE 0)
                     /\ scroll_velocity' = scroll_velocity
                            + (IF nth THEN settings.scroll_velocity_increase_per_level
                                      ELSE 0)
                     /\ frames_current_level' = IF nth THEN 0 ELSE frames_current_level + 1
                     /\ ~panicked'
                         => /\ background_position'.x - background_position.x
                                   = scroll_velocity'
                            /\ \A k \in 1..Len(enemies') :
                                   \/ enemies'[k].position.x = 240 * 256 - scroll_velocity'
                                   \/ \E i \in 1..Len(enemies) :
                                          enemies'[k].position.x
                                              = enemies[i].position.x - scroll_velocity'
          /\ ~SimulatedStep
              => UNCHANGED <<frame_count, frames_current_level, speed_level,
                             scroll_velocity>>]_vars

\* C28 witness: the session was paused in its second level-up frame, with
\* enemies on the screen, and frames have been called on it since (START is
\* released): counter, timer, level and velocity are as that frame left them.
C28_Witness ==
    /\ state = Pause
    /\ "START" \notin input
    /\ speed_level = 2
    /\ frames_current_level = 0
    /\ frame_count = 2 * settings.frames_to_level_up
    /\ enemies # <<>>

\* ----------------------------------------------------------- total frames
\* C29: every frame call of a session completes: in no reachable state has
\* a frame call failed, whatever the keys and the random values were.
C29_FrameNeverFails == ~panicked

\* ------------------------------------------------------------ spawn timing
\* Entry k of all the entries drawn so far, in the order they were queued.
EntryDrawn(rng, k) == (rng[((k - 1) \div 4) + 1] \div (256 ^ ((k - 1) % 4))) % 256

\* The number of entries consumed: drawn and no longer in the queue.
ConsumedOf(rng, queue) == 4 * Len(rng) - Len(queue)

\* The simulated frame of firing k, if every firing comes d + 1 frames after
\* the one before, d being the delay of the entry it consumes.
RECURSIVE FiringFrame(_, _)
FiringFrame(rng, k) ==
    IF k = 0 THEN 0
    ELSE FiringFrame(rng, k - 1) + ((EntryDrawn(rng, k) % 8) * 12 + 40) + 1

\* C30: firing k of a session happens in simulated frame
\* (d1 + 1) + .. + (dk + 1), di being the delay of the i-th entry drawn,
\* whether or not the firings before it created an enemy; the counter is the
\* number of simulated frames since the last firing and never passes the
\* delay of the front entry; a delay plus one is between 41 and 125; frame
\* calls that do not simulate leave counter and queue alone.
C30_SpawnTimingFromQueue ==
    /\ \A b \in 0..255 : ((b % 8) * 12 + 40) + 1 \in 41..125
    /\ [](/\ frames_since_last_spawn
                 = frame_count - FiringFrame(rng_out, ConsumedOf(rng_out, spawn_queue))
          /\ spawn_queue # <<>>
                 => frames_since_last_spawn <= (Head(spawn_queue) % 8) * 12 + 40
          /\ spawn_queue = <<>> => frames_since_last_spawn = 0)
    /\ [][/\ SimulatedStep
              => LET k == ConsumedOf(rng_out, spawn_queue)
                     k1 == ConsumedOf(rng_out', spawn_queue')
                 IN  /\ k1 \in {k, k + 1}
                     /\ (k1 = k + 1) = (frame_count' = FiringFrame(rng_out', k + 1))
          /\ ~SimulatedStep
              => UNCHANGED <<frames_since_last_spawn, spawn_queue, rng_out>>]_vars

\* C30 witness: the fourth firing of a session whose entries all have delay 40
\* has just happened, in frame 4 * 41, on a pool that was full.
C30_Witness ==
    /\ rng_out = <<0>>
    /\ frame_count = 164
    /\ spawn_queue = <<>>
    /\ frames_since_last_spawn = 0
    /\ Len(enemies) = 2
    /\ JustDropped

\* ------------------------------------------------- every enemy leaves
\* A frame call that simulates a frame of a session in Continue. In
\* SpecScroll START is never pressed, so every frame call made in Continue
\* on a session that has not failed is such a step.
AdvanceInContinue ==
    /\ state = Continue
    /\ ~panicked
    /\ frame_count < MaxFrames
    /\ frame_count' = frame_count + 1

\* The session of SpecScroll with the host loop going on: the loop calls
\* frame once per vblank, so a session in Continue is eventually advanced.
SpecScrollLive == SpecScroll /\ WF_frame_count(AdvanceInContinue)

\* The number of frames from the spawn frame of an enemy to the frame that
\* removes it, at 870 / 256 px per frame: the moves that take it from x = 240
\* to floor(x) < -32, the last of them in the frame before the removal.
FramesToLeave == ((240 + 32) * 256) \div 870 + 1

\* The simulated frame in which the enemy was spawned (it has been moved in
\* that frame and in every simulated frame since).
BornIn(enemy) == frame_count - MovesOf(enemy) + 1

\* The enemy spawned in simulated frame f is in the pool.
InPool(f) == \E i \in 1..Len(enemies) : BornIn(enemies[i]) = f

\* An enemy spawned early enough to leave within the frames explored is in
\* the pool.
EarlyInPool == \E f \in 1..(MaxFrames - FramesToLeave) : InPool(f)

\* C31: with a positive scroll velocity, the enemies that are in the pool of
\* a session in Continue are eventually all out of the pool, unless the
\* session leaves Continue or stops being advanced (enemies spawned early
\* enough to leave within the frames explored: none of them is spawned
\* later); a frame call removes an enemy only if
\* its floor(x) was below -32 at the start of the call, every other enemy is
\* still in the pool afterwards, moved by the scroll velocity.
C31_EveryEnemyLeaves ==
    /\ [](scroll_velocity > 0)
    /\ (EarlyInPool /\ state = Continue /\ ~panicked)
           ~> (~EarlyInPool \/ state # Continue \/ panicked)
    /\ [][/\ (SimulatedStep /\ ~panicked')
              => \A i \in 1..Len(enemies) :
                     enemies[i].position.x >= (-32) * 256
                         => \E j \in 1..Len(enemies') :
                                enemies'[j] = [enemies[i] EXCEPT
                                                  !.position.x = @ - scroll_velocity']
          /\ (SimulatedStep /\ panicked') => Len(enemies') >= Len(enemies)
          /\ ~SimulatedStep => enemies' = enemies]_vars

\* C31 witness: the enemy spawned in frame 82 has left the pool by the end of
\* frame 82 + 81, in a session that is still in Continue; the enemy spawned
\* in frame 123 is alone in the pool.
C31_Witness ==
    /\ state = Continue
    /\ ~panicked
    /\ frame_count = 82 + FramesToLeave
    /\ ~InPool(82)
    /\ InPool(123)
    /\ Len(enemies) = 1

====
